---- MODULE Spec2Model ----
(***************************************************************************)
(* Storefront data layer: the shared state container (ShopProvider), the   *)
(* price derivation (getTotalPrice) and the transport client (ApiClient).  *)
(*                                                                         *)
(* Three specifications share the variables:                               *)
(*   Spec          the container: auth status changes, the sign-in         *)
(*                 synchronisation (syncUser and its six loads) and        *)
(*                 createOrder;                                            *)
(*   SpecPrice     getTotalPrice applied to every cart total and promo;    *)
(*   SpecTransport one ApiClient call from dispatch to its result.         *)
(* Optional values (T | null) are sequences of length 0 or 1: Null is      *)
(* <<>>, a present value v is <<v>>.                                       *)
(***************************************************************************)
EXTENDS Integers, Sequences, FiniteSets, TLC

\* ---------------------------------------------------------------- bounds
\* sign-ins per behaviour (syncUser invocations that take the signed-in branch)
MaxSessions == 1
\* createOrder invocations per behaviour
MaxOrders == 1
\* largest server-computed cart total drawn in SpecPrice
MaxTotal == 60

Null == <<>>
Some(v) == <<v>>
Max(a, b) == IF a >= b THEN a ELSE b

\* ------------------------------------------------------------- container
VARIABLES
  isSignedIn,     \* isSignedIn && clerkUser && userId of the latest render
  cart,           \* Cart | null
  wishlist,       \* Wishlist | null
  user,           \* User | null: [profile, addresses]
  orders,         \* Order[]
  returns,        \* Return[]
  notifications,  \* Notification[]
  appliedPromo,   \* PromoCode | null
  loading,        \* the shared busy flag
  error,          \* string | null
  toasts,         \* notices shown so far: [success, error]
  issued,         \* requests handed to the services so far
  sess,           \* syncUser invocations (signed-in branch), by number
  nsess,          \* number of sign-ins so far
  ord,            \* createOrder invocations, by number
  nord,           \* number of createOrder invocations so far
  shown,          \* SpecPrice: the last value getTotalPrice returned
  req,            \* SpecTransport: the ApiClient call under study
  token,          \* window.__clerkToken, the process-wide bearer token
  setup,          \* SpecAuth: setupAuth invocations waiting for getToken()
  svc,            \* SpecService: the Resource Service call under study
  mut             \* SpecMutation: the container method invocations under study

cvars == <<isSignedIn, cart, wishlist, user, orders, returns, notifications,
           appliedPromo, loading, error, toasts, issued, sess, nsess, ord, nord>>
\* the variables outside the container, and those a transport step leaves alone
ovars == <<shown, req, token, setup, svc, mut>>
tframe == <<cvars, shown, token, setup, svc, mut>>
vars == <<cvars, ovars>>

\* The hard-coded promo catalogue; discount is a percentage or an amount.
promoCodes ==
  { [code |-> "WELCOME10", discount |-> 10, type |-> "percentage"],
    [code |-> "SAVE20",    discount |-> 20, type |-> "percentage"],
    [code |-> "FLAT50",    discount |-> 50, type |-> "fixed"] }

\* The six loads of the post-sign-in fan-out.
Loads == {"cart", "wishlist", "orders", "returns", "notifications", "addresses"}

\* What the backend may answer to each load (opaque server, small samples).
\* A cart is [items: number of line items, total: server-computed total].
ServerCarts == { [items |-> 0, total |-> 0], [items |-> 1, total |-> 30] }
ServerData(l) ==
  CASE l = "cart"          -> ServerCarts
    [] l = "wishlist"      -> {"w1"}
    [] l = "orders"        -> {<<"o1">>}
    [] l = "returns"       -> {<<"r1">>}
    [] l = "notifications" -> {<<[id |-> "n1", read |-> FALSE]>>}
    [] l = "addresses"     -> {<<"a1">>}
ServerProfiles == {"p1"}

Sessions == 1..MaxSessions
OrderCalls == 1..MaxOrders

IdleSession ==
  [phase |-> "idle", capUser |-> Null, pending |-> {}, allOk |-> TRUE,
   interrupted |-> FALSE, got |-> [l \in Loads |-> Null]]
IdleOrder == [pc |-> "idle", capCart |-> Null, result |-> "none"]

\* State after construction: the useState initial values.
ContainerInit ==
  /\ isSignedIn = FALSE
  /\ cart = Null
  /\ wishlist = Null
  /\ user = Null
  /\ orders = <<>>
  /\ returns = <<>>
  /\ notifications = <<>>
  /\ appliedPromo = Null
  /\ loading = FALSE
  /\ error = Null
  /\ toasts = [success |-> 0, error |-> 0]
  /\ issued = {}
  /\ sess = [s \in Sessions |-> IdleSession]
  /\ nsess = 0
  /\ ord = [k \in OrderCalls |-> IdleOrder]
  /\ nord = 0

ToastError == [toasts EXCEPT !.error = @ + 1]
ToastSuccess == [toasts EXCEPT !.success = @ + 1]

\* syncUser, signed-in branch, up to its first await: the busy flag is set,
\* the error is reset and the profile request is issued.  The invocation keeps
\* the `user` of the render that created it (loadAddresses reads that one).
SignIn ==
  /\ ~isSignedIn
  /\ nsess < MaxSessions
  /\ isSignedIn' = TRUE
  /\ nsess' = nsess + 1
  /\ loading' = TRUE
  /\ error' = Null
  /\ sess' = [sess EXCEPT ![nsess + 1] =
                [IdleSession EXCEPT !.phase = "profile", !.capUser = user]]
  /\ issued' = issued \cup {<<"sync", nsess + 1, "profile">>}
  /\ UNCHANGED <<cart, wishlist, user, orders, returns, notifications,
                 appliedPromo, toasts, ord, nord, ovars>>

\* syncUser, signed-out branch: every identity-scoped field is reset; no
\* request is issued and nothing in flight is cancelled.
SignOut ==
  /\ isSignedIn
  /\ isSignedIn' = FALSE
  /\ user' = Null
  /\ cart' = Null
  /\ wishlist' = Null
  /\ orders' = <<>>
  /\ returns' = <<>>
  /\ notifications' = <<>>
  /\ appliedPromo' = Null
  /\ sess' = [s \in Sessions |->
                IF sess[s].phase = "idle" THEN sess[s]
                ELSE [sess[s] EXCEPT !.interrupted = TRUE]]
  /\ UNCHANGED <<loading, error, toasts, issued, nsess, ord, nord, ovars>>

\* await Promise.all([loadCart(), ..., loadAddresses()]): every load runs to
\* its request when the array is built.
FanOut_CartFirst(s) == {<<"sync", s, "cart">>}
FanOut(s) == {<<"sync", s, l>> : l \in Loads}

\* userService.getProfile() settles.  On success the user is set with an empty
\* address list and Promise.all starts the six loads, each running to its
\* request; on failure the catch sets error, shows a notice, and the finally
\* clears the busy flag: no load is started.
ProfileDone(s, ok, p) ==
  /\ sess[s].phase = "profile"
  /\ IF ok
     THEN /\ user' = Some([profile |-> p, addresses |-> <<>>])
          /\ sess' = [sess EXCEPT ![s].phase = "fanout", ![s].pending = Loads]
          /\ issued' = issued \cup FanOut(s)
          /\ UNCHANGED <<error, toasts, loading>>
     ELSE /\ error' = Some("Failed to fetch profile")
          /\ toasts' = ToastError
          /\ loading' = FALSE
          /\ sess' = [sess EXCEPT ![s].phase = "failed", ![s].allOk = FALSE]
          /\ UNCHANGED <<user, issued>>
  /\ UNCHANGED <<isSignedIn, cart, wishlist, orders, returns, notifications,
                 appliedPromo, nsess, ord, nord, ovars>>

\* The state write of one load whose fetch succeeded with value v, made by an
\* invocation whose closure holds capUser.
LoadWrite(l, v, capUser) ==
  /\ cart' = IF l = "cart" THEN Some(v) ELSE cart
  /\ wishlist' = IF l = "wishlist" THEN Some(v) ELSE wishlist
  /\ orders' = IF l = "orders" THEN v ELSE orders
  /\ returns' = IF l = "returns" THEN v ELSE returns
  /\ notifications' = IF l = "notifications" THEN v ELSE notifications
  /\ user' = IF l = "addresses" /\ capUser # Null
             THEN Some([capUser[1] EXCEPT !.addresses = v])
             ELSE user

\* One load of the fan-out settles.  A failed fetch is caught and logged.
\* When the last load has settled Promise.all resolves and the finally of
\* syncUser clears the busy flag.
LoadDone(s, l, ok, v) ==
  /\ sess[s].phase = "fanout"
  /\ l \in sess[s].pending
  /\ IF ok
     THEN LoadWrite(l, v, sess[s].capUser)
     ELSE UNCHANGED <<cart, wishlist, orders, returns, notifications, user>>
  /\ LET rest == sess[s].pending \ {l}
     IN /\ sess' = [sess EXCEPT
                      ![s].pending = rest,
                      ![s].allOk = @ /\ ok,
                      ![s].got[l] = IF ok THEN Some(v) ELSE Null,
                      ![s].phase = IF rest = {} THEN "done" ELSE "fanout"]
        /\ loading' = IF rest = {} THEN FALSE ELSE loading
  /\ UNCHANGED <<isSignedIn, appliedPromo, error, toasts, issued, nsess,
                 ord, nord, ovars>>

\* createOrder up to its first await.  With no cart in the closure the
\* precondition error is thrown, caught (notice), re-thrown, and the finally
\* clears the busy flag; otherwise POST /orders is issued.
CreateOrderStart ==
  /\ nord < MaxOrders
  /\ nord' = nord + 1
  /\ IF cart = Null
     THEN /\ ord' = [ord EXCEPT ![nord + 1] =
                       [pc |-> "done", capCart |-> cart, result |-> "threw"]]
          /\ toasts' = ToastError
          /\ loading' = FALSE
          /\ UNCHANGED issued
     ELSE /\ ord' = [ord EXCEPT ![nord + 1] =
                       [pc |-> "await", capCart |-> cart, result |-> "none"]]
          /\ loading' = TRUE
          /\ issued' = issued \cup {<<"createOrder", nord + 1, "POST /orders">>}
          /\ UNCHANGED toasts
  /\ UNCHANGED <<isSignedIn, cart, wishlist, user, orders, returns,
                 notifications, appliedPromo, error, sess, nsess, ovars>>

\* orderService.createOrder settles.
CreateOrderDone(k, ok, o) ==
  /\ ord[k].pc = "await"
  /\ IF ok
     THEN /\ orders' = <<o>> \o orders
          /\ cart' = Null
          /\ appliedPromo' = Null
          /\ toasts' = ToastSuccess
          /\ ord' = [ord EXCEPT ![k].pc = "done", ![k].result = "returned"]
     ELSE /\ toasts' = ToastError
          /\ ord' = [ord EXCEPT ![k].pc = "done", ![k].result = "threw"]
          /\ UNCHANGED <<orders, cart, appliedPromo>>
  /\ loading' = FALSE
  /\ UNCHANGED <<isSignedIn, wishlist, user, returns, notifications, error,
                 issued, sess, nsess, nord, ovars>>

ProfileSettles == \E s \in Sessions, ok \in BOOLEAN, p \in ServerProfiles : ProfileDone(s, ok, p)
LoadSettles == \E s \in Sessions, l \in Loads, ok \in BOOLEAN : \E v \in ServerData(l) : LoadDone(s, l, ok, v)
OrderSettles == \E k \in OrderCalls, ok \in BOOLEAN : CreateOrderDone(k, ok, "oNew")

\* The variables of the other specifications, at rest.
Idle(v) == v = Null

Init ==
  /\ ContainerInit
  /\ Idle(shown) /\ Idle(req) /\ Idle(token) /\ Idle(setup) /\ Idle(svc) /\ Idle(mut)

Next ==
  \/ SignIn
  \/ SignOut
  \/ ProfileSettles
  \/ LoadSettles
  \/ CreateOrderStart
  \/ OrderSettles

Spec == Init /\ [][Next]_vars

\* ------------------------------------------------------- price derivation
\* Prices are carried in hundredths so that total * (1 - discount / 100) is
\* an integer: total * (PriceScale - discount).
PriceScale == 100

getTotalPrice_NoClamp(c, promo) ==
  IF c = Null THEN 0
  ELSE IF promo = Null THEN c[1].total * PriceScale
  ELSE IF promo[1].type = "percentage"
       THEN c[1].total * (PriceScale - promo[1].discount)
       ELSE (c[1].total - promo[1].discount) * PriceScale

getTotalPrice_PercentAdded(c, promo) ==
  IF c = Null THEN 0
  ELSE IF promo = Null THEN c[1].total * PriceScale
  ELSE IF promo[1].type = "percentage"
       THEN c[1].total * (PriceScale + promo[1].discount)
       ELSE Max(0, c[1].total - promo[1].discount) * PriceScale

\* getTotalPrice() over the cart and appliedPromo of the render, in hundredths.
getTotalPrice(c, promo) ==
  IF c = Null THEN 0
  ELSE IF promo = Null THEN c[1].total * PriceScale
  ELSE IF promo[1].type = "percentage"
       THEN c[1].total * (PriceScale - promo[1].discount)
       ELSE Max(0, c[1].total - promo[1].discount) * PriceScale

\* Every cart (none, or one with a server total in 0..MaxTotal) with every
\* promo the container can hold (none, or one of promoCodes).
PriceInit ==
  /\ isSignedIn = TRUE
  /\ cart \in {Null} \cup {Some([items |-> 1, total |-> t]) : t \in 0..MaxTotal}
  /\ appliedPromo \in {Null} \cup {Some(p) : p \in promoCodes}
  /\ wishlist = Null
  /\ user = Some([profile |-> "p1", addresses |-> <<>>])
  /\ orders = <<>>
  /\ returns = <<>>
  /\ notifications = <<>>
  /\ loading = FALSE
  /\ error = Null
  /\ toasts = [success |-> 0, error |-> 0]
  /\ issued = {}
  /\ sess = [s \in Sessions |-> IdleSession]
  /\ nsess = 0
  /\ ord = [k \in OrderCalls |-> IdleOrder]
  /\ nord = 0
  /\ Idle(shown) /\ Idle(req) /\ Idle(token) /\ Idle(setup) /\ Idle(svc) /\ Idle(mut)

\* A render calls getTotalPrice().
GetTotalPrice ==
  /\ shown' = Some(getTotalPrice(cart, appliedPromo))
  /\ UNCHANGED <<cvars, req, token, setup, svc, mut>>

PriceNext == GetTotalPrice

SpecPrice == PriceInit /\ [][PriceNext]_vars

\* ------------------------------------------------------ transport client
\* HTTP_STATUS.INTERNAL_SERVER_ERROR
INTERNAL_SERVER_ERROR == 500

\* The ApiClient methods.
Kinds == {"get", "post", "put", "patch", "delete", "upload"}

\* JavaScript values of a body field, by name: "undefined" is an absent
\* field; "0", "false" and "''" are the number, the boolean and the empty
\* string; "obj" is a payload object, "msg" a non-empty string.
DataVals == {"undefined", "null", "0", "false", "''", "obj"}
MessageVals == {"undefined", "''", "msg"}
Truthy(v) == v \notin {"undefined", "null", "0", "false", "''"}
\* a || b
Or(a, b) == IF Truthy(a) THEN a ELSE b
\* a ?? b
Nullish(a, b) == IF a \in {"undefined", "null"} THEN b ELSE a

\* What response.json() may give: a rejection (body that is not JSON, an
\* empty body, a read that fails), the JSON value null, or a JSON object.
Bodies ==
  { [json |-> "malformed", data |-> "undefined", message |-> "undefined"],
    [json |-> "null", data |-> "undefined", message |-> "undefined"] }
  \cup { [json |-> "object", data |-> d, message |-> m] :
           d \in DataVals, m \in MessageVals }
Statuses == {200, 201, 204, 400, 404, 500}
\* response.ok
ResponseOk(status) == status >= 200 /\ status <= 299

NoEnvelope == [data |-> "none", dataVal |-> "undefined", message |-> "", status |-> 0, errors |-> FALSE]
\* An Envelope without data.
Failure(msg, status, errs) ==
  [data |-> "none", dataVal |-> "undefined", message |-> msg, status |-> status, errors |-> errs]

\* The Envelope built from a parsed body: data is "field" (body.data, whose
\* value is dataVal) or "body" (the whole parsed body).
Normalize(kind, status, body) ==
  IF ~ResponseOk(status)
  THEN Failure(Or(body.message, IF kind = "upload" THEN "Upload failed" ELSE "Request failed"),
               status, TRUE)
  ELSE [data |-> IF Truthy(body.data) THEN "field" ELSE "body",
        dataVal |-> IF Truthy(body.data) THEN body.data ELSE "undefined",
        message |-> Or(body.message, IF kind = "upload" THEN "Upload successful" ELSE "Success"),
        status |-> status,
        errors |-> FALSE]

\* The Envelope of the catch block for a rejection named errName with message
\* errMsg; only request() recognises the abort of its own timer.
Caught(kind, errName, errMsg) ==
  IF kind # "upload" /\ errName = "AbortError"
  THEN Failure("Request timeout", INTERNAL_SERVER_ERROR, FALSE)
  ELSE Failure(Or(errMsg, IF kind = "upload" THEN "Upload error" ELSE "Network error"),
               INTERNAL_SERVER_ERROR, FALSE)

\* Bearer tokens the auth collaborator may hand out.
Tokens == {"t1", "t2"}

AuthHeader_Always(tok) ==
  Some([scheme |-> "Bearer", token |-> IF tok = Null THEN "" ELSE tok[1]])

\* The Authorization header built from `window.__clerkToken || ''`: none when
\* no token is set.
AuthHeader(tok) ==
  IF tok = Null THEN Null ELSE Some([scheme |-> "Bearer", token |-> tok[1]])

\* A call of method k that has not run yet.
NewCall(k, b) ==
  [kind |-> k, baseAbsolute |-> b, pc |-> "called", timer |-> "unset",
   late |-> FALSE, aborted |-> FALSE, status |-> 0, auth |-> Null,
   body |-> [json |-> "none", data |-> "undefined", message |-> "undefined"],
   outcome |-> "pending", env |-> NoEnvelope]

\* One call of an ApiClient method, on a client whose base URL is absolute
\* (http://host/api) or not (/api), with or without a token registered.
TransportInit ==
  /\ ContainerInit
  /\ Idle(shown) /\ Idle(setup) /\ Idle(svc) /\ Idle(mut)
  /\ token \in {Null} \cup {Some(t) : t \in Tokens}
  /\ req \in {NewCall(k, b) : k \in Kinds, b \in BOOLEAN}

\* The method runs to its fetch: get() first builds new URL(baseURL + endpoint),
\* which throws on a string that is no absolute URL; then the abort timer is
\* armed and the request dispatched with the headers built from the token as
\* it is now.
Dispatch ==
  /\ req.pc = "called"
  /\ IF req.kind = "get" /\ ~req.baseAbsolute
     THEN req' = [req EXCEPT !.pc = "done", !.outcome = "threw"]
     ELSE req' = [req EXCEPT !.pc = "fetching", !.timer = "armed",
                             !.auth = AuthHeader(token)]
  /\ UNCHANGED tframe

\* The timeout elapses while fetch is pending: the timer aborts the request,
\* fetch rejects with an AbortError and the catch block returns.
TimerFires ==
  /\ req.pc = "fetching"
  /\ req.timer = "armed"
  /\ req' = [req EXCEPT !.pc = "done", !.timer = "fired", !.late = TRUE,
                        !.aborted = TRUE, !.outcome = "returned",
                        !.env = Caught(req.kind, "AbortError", "The operation was aborted.")]
  /\ UNCHANGED tframe

\* fetch rejects (DNS, refused connection, ...).
NetworkError(msg) ==
  /\ req.pc = "fetching"
  /\ req' = [req EXCEPT !.pc = "done", !.timer = "cleared", !.outcome = "returned",
                        !.env = Caught(req.kind, "TypeError", msg)]
  /\ UNCHANGED tframe

\* fetch resolves with the response headers: the timer is cleared before the
\* body is read.
Headers(status) ==
  /\ req.pc = "fetching"
  /\ req' = [req EXCEPT !.pc = "headers", !.timer = "cleared", !.status = status]
  /\ UNCHANGED tframe

\* The timeout duration elapses while the body is still being read; the timer
\* was cleared, so nothing is aborted.
TimePasses ==
  /\ req.pc = "headers"
  /\ ~req.late
  /\ req' = [req EXCEPT !.late = TRUE]
  /\ UNCHANGED tframe

\* response.json() settles and the method returns its Envelope.
BodyRead(body) ==
  /\ req.pc = "headers"
  /\ req' = [req EXCEPT
               !.pc = "done", !.body = body, !.outcome = "returned",
               !.env = CASE body.json = "malformed" ->
                              Caught(req.kind, "SyntaxError", "Unexpected end of JSON input")
                         [] body.json = "null" ->
                              Caught(req.kind, "TypeError", "Cannot read properties of null")
                         [] OTHER -> Normalize(req.kind, req.status, body)]
  /\ UNCHANGED tframe

\* setAuthToken(t) / clearAuthToken(), called by the auth integration at any
\* moment, also while the call is in flight.
SetAuthToken(t) ==
  /\ token' = Some(t)
  /\ UNCHANGED <<cvars, shown, req, setup, svc, mut>>
ClearAuthToken ==
  /\ token' = Null
  /\ UNCHANGED <<cvars, shown, req, setup, svc, mut>>

TokenSet == \E t \in Tokens : SetAuthToken(t)
FetchRejects == \E msg \in {"Failed to fetch", "''"} : NetworkError(msg)
HeadersArrive == \E status \in Statuses : Headers(status)
BodySettles == \E body \in Bodies : BodyRead(body)

TransportNext ==
  \/ Dispatch
  \/ TimerFires
  \/ FetchRejects
  \/ HeadersArrive
  \/ TimePasses
  \/ BodySettles
  \/ TokenSet
  \/ ClearAuthToken

SpecTransport == TransportInit /\ [][TransportNext]_vars

\* ------------------------------------------------------ resource services
\* Service methods, one or more of each shape found in the services:
\*   "data"      if (response.data) return response.data; throw ...
\*   "void"      if (status !== 200 && status !== 204) throw ...
\*   "exists"    isProductInWishlist: getWishlist() inside try/catch
\*   "duplicate" duplicateAddress: getAddressById(), then createAddress()
ServiceMethods ==
  { [name |-> "getCart",              kind |-> "get",    shape |-> "data"],
    [name |-> "createAddress",        kind |-> "post",   shape |-> "data"],
    [name |-> "updateCartItem",       kind |-> "patch",  shape |-> "data"],
    [name |-> "removeFromWishlist",   kind |-> "delete", shape |-> "data"],
    [name |-> "updateProfile",        kind |-> "upload", shape |-> "data"],
    [name |-> "clearCart",            kind |-> "delete", shape |-> "void"],
    [name |-> "deleteAddress",        kind |-> "delete", shape |-> "void"],
    [name |-> "markNotificationRead", kind |-> "post",   shape |-> "void"],
    [name |-> "isProductInWishlist",  kind |-> "get",    shape |-> "exists"],
    [name |-> "duplicateAddress",     kind |-> "get",    shape |-> "duplicate"] }

\* modifications.isDefault as passed to duplicateAddress.
IsDefaultMods == {"absent", "false", "true"}

\* `if (response.data)` on the Envelope the call returned.
HasData(r) ==
  /\ r.outcome = "returned"
  /\ \/ r.env.data = "body"
     \/ r.env.data = "field" /\ Truthy(r.env.dataVal)

\* not (status !== 200 && status !== 204)
StatusAccepted(r) == r.outcome = "returned" /\ r.env.status \in {200, 204}

\* { isDefault: false, ...modifications }
SpreadIsDefault(mods) == IF mods = "absent" THEN "false" ELSE mods

\* How a method of the given shape ends on the finished transport call r:
\* "returned", "threw", or "create" (duplicateAddress goes on to its POST).
ServiceOutcome(shape, r) ==
  CASE shape = "data"      -> IF HasData(r) THEN "returned" ELSE "threw"
    [] shape = "void"      -> IF StatusAccepted(r) THEN "returned" ELSE "threw"
    [] shape = "exists"    -> "returned"
    [] shape = "duplicate" -> IF HasData(r) THEN "create" ELSE "threw"

\* One call of a service method on a fresh client.
ServiceInit ==
  /\ ContainerInit
  /\ Idle(shown) /\ Idle(token) /\ Idle(setup) /\ Idle(mut)
  /\ \E m \in ServiceMethods, b \in BOOLEAN, d \in IsDefaultMods :
       /\ (m.shape # "duplicate") => d = "absent"
       /\ req = NewCall(m.kind, b)
       /\ svc = [method |-> m.name, shape |-> m.shape, pc |-> "call",
                 result |-> "pending", mods |-> d, sent |-> Null]

\* The awaited transport call has finished and the method resumes.
ServiceResume ==
  /\ svc.pc = "call"
  /\ req.pc = "done"
  /\ LET o == ServiceOutcome(svc.shape, req)
     IN svc' = IF o = "create"
               THEN [svc EXCEPT !.pc = "create",
                                !.sent = Some([isDefault |-> SpreadIsDefault(svc.mods)])]
               ELSE [svc EXCEPT !.pc = "done", !.result = o]
  /\ UNCHANGED <<cvars, shown, req, token, setup, mut>>

\* The createAddress call of duplicateAddress settles.
DuplicateCreateDone(ok) ==
  /\ svc.pc = "create"
  /\ svc' = [svc EXCEPT !.pc = "done", !.result = IF ok THEN "returned" ELSE "threw"]
  /\ UNCHANGED <<cvars, shown, req, token, setup, mut>>

DuplicateCreateSettles == \E ok \in BOOLEAN : DuplicateCreateDone(ok)

ServiceNext ==
  \/ Dispatch
  \/ TimerFires
  \/ FetchRejects
  \/ HeadersArrive
  \/ TimePasses
  \/ BodySettles
  \/ ServiceResume
  \/ DuplicateCreateSettles

SpecService == ServiceInit /\ [][ServiceNext]_vars

\* ------------------------------------------------------------ bearer token
\* The setupAuth effect of the container and the process-wide token it
\* registers.  In this specification `setup` counts the getToken() calls
\* that have not settled: `cur` is the call of the sign-in in force
\* ("none" when signed out), `stale` the calls of earlier sign-ins, `got`
\* what the call of the sign-in in force returned.
MaxSignIns == 5

TokenResults == {Null} \cup {Some(t) : t \in Tokens}

\* the container's fields other than the auth status
dvars == <<cart, wishlist, user, orders, returns, notifications, appliedPromo,
           loading, error, toasts, issued, sess, nsess, ord, nord>>

AuthInit ==
  /\ ContainerInit
  /\ Idle(shown) /\ Idle(req) /\ Idle(svc) /\ Idle(mut)
  /\ token = Null
  /\ setup = [cur |-> "none", stale |-> 0, got |-> Null, n |-> 0]

\* if (token) setAuthToken(token), with the token current when it runs
Register(t) == IF t # Null THEN t ELSE token

\* isSignedIn becomes true: the effect runs setupAuth up to await getToken().
AuthSignIn ==
  /\ ~isSignedIn
  /\ setup.n < MaxSignIns
  /\ isSignedIn' = TRUE
  /\ setup' = [setup EXCEPT !.cur = "pending", !.got = Null, !.n = @ + 1]
  /\ UNCHANGED <<dvars, shown, req, token, svc, mut>>

\* isSignedIn becomes false: the effect runs setupAuth's else branch,
\* clearAuthToken(); the pending getToken() is not cancelled.
AuthSignOut ==
  /\ isSignedIn
  /\ isSignedIn' = FALSE
  /\ token' = Null
  /\ setup' = [setup EXCEPT !.cur = "none", !.got = Null,
                            !.stale = IF setup.cur = "pending" THEN @ + 1 ELSE @]
  /\ UNCHANGED <<dvars, shown, req, svc, mut>>

\* getToken() of the sign-in in force resolves with t (null: no token).
GetTokenResolves(t) ==
  /\ setup.cur = "pending"
  /\ token' = Register(t)
  /\ setup' = [setup EXCEPT !.cur = "settled", !.got = t]
  /\ UNCHANGED <<cvars, shown, req, svc, mut>>

\* getToken() of an earlier sign-in resolves with t.
StaleTokenResolves(t) ==
  /\ setup.stale > 0
  /\ token' = Register(t)
  /\ setup' = [setup EXCEPT !.stale = @ - 1]
  /\ UNCHANGED <<cvars, shown, req, svc, mut>>

\* getToken() rejects: the catch logs and the token is left as it is.
GetTokenRejects ==
  /\ \/ setup.cur = "pending" /\ setup' = [setup EXCEPT !.cur = "settled"]
     \/ setup.stale > 0 /\ setup' = [setup EXCEPT !.stale = @ - 1]
  /\ UNCHANGED <<cvars, shown, req, token, svc, mut>>

\* logout(): clearAuthToken(); the sign-out itself is left to Clerk.
Logout ==
  /\ token' = Null
  /\ setup' = [setup EXCEPT !.got = Null]
  /\ UNCHANGED <<cvars, shown, req, svc, mut>>

TokenArrives == \E t \in TokenResults : GetTokenResolves(t)
StaleTokenArrives == \E t \in TokenResults : StaleTokenResolves(t)

AuthNext ==
  \/ AuthSignIn
  \/ AuthSignOut
  \/ TokenArrives
  \/ StaleTokenArrives
  \/ GetTokenRejects
  \/ Logout

SpecAuth == AuthInit /\ [][AuthNext]_vars

\* -------------------------------------------------------------- mutations
\* The container's mutation methods (and the read accessor getOrder), called
\* one after the other by a signed-in user.  `mut` is the invocation in
\* progress: its method, argument, position, result and the notices it has
\* emitted.  What the services answer is decided by the backend: each call
\* settles with success or failure.
MaxCalls == 2

\* refresh: the load awaited after the service call ("none": state is
\* patched locally); busy: setLoading(true) ... finally setLoading(false);
\* notice: where toast.success is called; onFail: how the catch ends.
Method(name, refresh, notice) ==
  [name |-> name, first |-> "service", refresh |-> refresh, busy |-> TRUE,
   notice |-> notice, onFail |-> "threw", mutation |-> TRUE]

Mutations ==
  { Method("addToCart", "cart", "end"),
    Method("removeFromCart", "cart", "end"),
    Method("updateCartQuantity", "cart", "never"),
    Method("clearCart", "none", "end"),
    [Method("toggleWishlist", "wishlist", "service") EXCEPT !.first = "exists"],
    Method("updateUser", "none", "end"),
    Method("addAddress", "addresses", "end"),
    Method("updateAddress", "addresses", "end"),
    Method("deleteAddress", "addresses", "end"),
    Method("setDefaultAddress", "addresses", "end"),
    Method("createOrder", "none", "end"),
    Method("createReturnRequest", "returns", "end"),
    [Method("markNotificationRead", "none", "never") EXCEPT !.busy = FALSE],
    [Method("applyPromoCode", "cart", "promo") EXCEPT !.onFail = "false"],
    Method("removePromoCode", "cart", "end"),
    [Method("getOrder", "none", "never") EXCEPT
       !.busy = FALSE, !.onFail = "undefined", !.mutation = FALSE] }

\* String.prototype.toLowerCase on the codes in play.
ToLowerCase(s) ==
  CASE s = "SAVE20" -> "save20"
    [] s = "FLAT50" -> "flat50"
    [] s = "WELCOME10" -> "welcome10"
    [] s = "BOGUS" -> "bogus"
    [] OTHER -> s

\* promoCodes.find(p => p.code.toLowerCase() === code.toLowerCase())
FindPromo(code) ==
  LET hits == {p \in promoCodes : ToLowerCase(p.code) = ToLowerCase(code)}
  IN IF hits = {} THEN Null ELSE Some(CHOOSE p \in hits : TRUE)

\* The arguments tried for each method.
MutArgs(name) ==
  CASE name = "markNotificationRead" -> {"n1", "n2"}
    [] name = "applyPromoCode" -> {"save20", "FLAT50", "BOGUS"}
    [] OTHER -> {"-"}

\* What the service call of a method resolves with.
ServiceValues(name) ==
  CASE name = "createOrder" -> {"o2"}
    [] name = "updateUser" -> {"p2"}
    [] OTHER -> {"-"}

\* prev.map(notif => notif.id === id ? { ...notif, read: true } : notif)
MarkRead_All(list, id) == [i \in DOMAIN list |-> [list[i] EXCEPT !.read = TRUE]]
MarkRead(list, id) ==
  [i \in DOMAIN list |->
     IF list[i].id = id THEN [list[i] EXCEPT !.read = TRUE] ELSE list[i]]

\* prev => [order, ...prev]
Prepend_Append(o, prev) == prev \o <<o>>
Prepend(o, prev) == <<o>> \o prev

IdleMutation ==
  [m |-> Method("none", "none", "never"), arg |-> "-", pc |-> "idle",
   result |-> "none", capUser |-> Null, n |-> 0, success |-> 0, error |-> 0,
   failed |-> FALSE, before |-> <<>>, exists |-> Null]

\* A signed-in user whose data has been loaded.
MutationInit ==
  /\ isSignedIn = TRUE
  /\ cart \in {Null, Some([items |-> 1, total |-> 30])}
  /\ wishlist = Some("w1")
  /\ user = Some([profile |-> "p1", addresses |-> <<>>])
  /\ orders \in {<<>>, <<"o1">>}
  /\ returns = <<>>
  /\ notifications = <<[id |-> "n1", read |-> FALSE], [id |-> "n2", read |-> FALSE]>>
  /\ appliedPromo = Null
  /\ loading = FALSE
  /\ error = Null
  /\ toasts = [success |-> 0, error |-> 0]
  /\ issued = {}
  /\ sess = [s \in Sessions |-> IdleSession]
  /\ nsess = 0
  /\ ord = [k \in OrderCalls |-> IdleOrder]
  /\ nord = 0
  /\ Idle(shown) /\ Idle(req) /\ Idle(token) /\ Idle(setup) /\ Idle(svc)
  /\ mut = IdleMutation

\* the variables no mutation touches
mframe == <<isSignedIn, error, sess, nsess, ord, nord, shown, req, token, setup, svc>>
\* the data fields of the container
mdata == <<cart, wishlist, user, orders, returns, notifications, appliedPromo>>

\* A method is called and runs to its first await.  createOrder on a null
\* cart throws inside its try: the catch and the finally run at once.
MutStart(m, a) ==
  /\ mut.pc \in {"idle", "done"}
  /\ mut.n < MaxCalls
  /\ LET call == [IdleMutation EXCEPT !.m = m, !.arg = a, !.n = mut.n + 1,
                                      !.capUser = user, !.before = notifications]
     IN IF m.name = "createOrder" /\ cart = Null
        THEN /\ mut' = [call EXCEPT !.pc = "done", !.result = "threw",
                                    !.error = 1]
             /\ toasts' = ToastError
             /\ loading' = FALSE
             /\ UNCHANGED issued
        ELSE /\ mut' = [call EXCEPT !.pc = m.first]
             /\ loading' = IF m.busy THEN TRUE ELSE loading
             /\ issued' = issued \cup {<<m.name, mut.n + 1, m.first>>}
             /\ UNCHANGED toasts
  /\ UNCHANGED <<mdata, mframe>>

\* userService.isProductInWishlist: getWishlist() succeeded (ok) with the
\* product among its items (member), or failed and the catch returned false.
IsProductInWishlist(ok, member) == IF ok THEN member ELSE FALSE

\* toggleWishlist: isProductInWishlist settles (it never throws); the remove
\* or the add request follows.
MutExistsDone(ok, member) ==
  /\ mut.pc = "exists"
  /\ mut' = [mut EXCEPT !.pc = "service",
                        !.exists = Some([ok |-> ok, member |-> member])]
  /\ issued' = issued \cup
       {<<mut.m.name, mut.n,
          IF IsProductInWishlist(ok, member) THEN "remove" ELSE "add">>}
  /\ UNCHANGED <<mdata, loading, toasts, mframe>>

\* await service(...); await load(): the requests started when the service
\* call of method m (invocation n) has settled.
IssuedAfterService_Always(m, n, ok) ==
  IF m.refresh # "none" THEN {<<m.name, n, m.refresh>>} ELSE {}
IssuedAfterService(m, n, ok) ==
  IF ok /\ m.refresh # "none" THEN {<<m.name, n, m.refresh>>} ELSE {}

\* The service call of the method settles.  Failure: catch (notice, then
\* rethrow or return) and finally.  Success: either the refresh load is
\* started, or the state is patched and the method ends.
MutServiceDone(ok, v) ==
  /\ mut.pc = "service"
  /\ LET m == mut.m
     IN IF ~ok
        THEN /\ mut' = [mut EXCEPT !.pc = "done", !.result = m.onFail,
                                   !.error = @ + 1, !.failed = TRUE]
             /\ toasts' = ToastError
             /\ loading' = IF m.busy THEN FALSE ELSE loading
             /\ issued' = issued \cup IssuedAfterService(m, mut.n, FALSE)
             /\ UNCHANGED mdata
        ELSE IF m.refresh # "none"
        THEN /\ mut' = [mut EXCEPT !.pc = "refresh",
                                   !.success = IF m.notice = "service" THEN @ + 1 ELSE @]
             /\ toasts' = IF m.notice = "service" THEN ToastSuccess ELSE toasts
             /\ issued' = issued \cup IssuedAfterService(m, mut.n, TRUE)
             /\ UNCHANGED <<mdata, loading>>
        ELSE /\ cart' = IF m.name \in {"clearCart", "createOrder"} THEN Null ELSE cart
             /\ orders' = IF m.name = "createOrder" THEN Prepend(v, orders) ELSE orders
             /\ appliedPromo' = IF m.name = "createOrder" THEN Null ELSE appliedPromo
             /\ user' = IF m.name = "updateUser" /\ user # Null
                        THEN Some([user[1] EXCEPT !.profile = v])
                        ELSE user
             /\ notifications' = IF m.name = "markNotificationRead"
                                 THEN MarkRead(notifications, mut.arg)
                                 ELSE notifications
             /\ mut' = [mut EXCEPT !.pc = "done", !.result = "returned",
                                   !.success = IF m.notice = "end" THEN @ + 1 ELSE @]
             /\ toasts' = IF m.notice = "end" THEN ToastSuccess ELSE toasts
             /\ loading' = IF m.busy THEN FALSE ELSE loading
             /\ UNCHANGED <<wishlist, returns, issued>>
  /\ UNCHANGED mframe

\* The refresh load settles (its own failure is caught and logged), then the
\* rest of the try block and the finally run.
MutRefreshDone(ok, v) ==
  /\ mut.pc = "refresh"
  /\ LET m == mut.m
         promo == FindPromo(mut.arg)
         says == \/ m.notice = "end"
                 \/ m.notice = "promo" /\ promo # Null
     IN /\ IF ok
           THEN LoadWrite(m.refresh, v, mut.capUser)
           ELSE UNCHANGED <<cart, wishlist, orders, returns, notifications, user>>
        /\ appliedPromo' = CASE m.name = "applyPromoCode" /\ promo # Null -> promo
                             [] m.name = "removePromoCode" -> Null
                             [] OTHER -> appliedPromo
        /\ mut' = [mut EXCEPT !.pc = "done",
                              !.result = IF m.name = "applyPromoCode"
                                         THEN (IF promo # Null THEN "true" ELSE "false")
                                         ELSE "returned",
                              !.success = IF says THEN @ + 1 ELSE @]
        /\ toasts' = IF says THEN ToastSuccess ELSE toasts
        /\ loading' = IF m.busy THEN FALSE ELSE loading
  /\ UNCHANGED <<issued, mframe>>

MutExistsSettles == \E ok \in BOOLEAN : \E member \in BOOLEAN : MutExistsDone(ok, member)
MutCalled == \E m \in Mutations : \E a \in MutArgs(m.name) : MutStart(m, a)
MutServiceSettles ==
  \E ok \in BOOLEAN : \E v \in ServiceValues(mut.m.name) : MutServiceDone(ok, v)
MutRefreshSettles ==
  /\ mut.pc = "refresh"
  /\ \E ok \in BOOLEAN : \E v \in ServerData(mut.m.refresh) : MutRefreshDone(ok, v)

MutationNext ==
  \/ MutCalled
  \/ MutExistsSettles
  \/ MutServiceSettles
  \/ MutRefreshSettles

SpecMutation == MutationInit /\ [][MutationNext]_vars

\* ---------------------------------------------------------- return request
\* ReturnService.createReturn up to the transport call it makes.  In this
\* specification `svc` is the returnData argument and `req` the request
\* handed to the ApiClient (Null until the method has run).
MaxItems == 2
MaxImages == 2

SeqsUpTo(S, n) == UNION {[1..k -> S] : k \in 0..n}

\* returnData: images and notes are optional (Null: undefined).
ReturnDatas ==
  { [orderId |-> "o1", items |-> its, returnReason |-> "damaged",
     images |-> im, notes |-> nt, refundMethod |-> "original-payment"] :
      its \in SeqsUpTo({"i1", "i2"}, MaxItems),
      im \in {Null} \cup {Some(s) : s \in SeqsUpTo({"f1", "f2"}, MaxImages)},
      nt \in {Null, Some("note")} }

\* returnData.images && returnData.images.length > 0
HasImages_Defined(d) == d.images # Null
HasImages(d) == d.images # Null /\ Len(d.images[1]) > 0

\* One FormData entry; the value of a text entry is the string, of a json
\* entry the value JSON.stringify encoded, of a file entry the file.
FormEntry(key, kind, val) == [key |-> key, kind |-> kind, val |-> val]

\* Object.entries(returnData) without images and undefined values, items
\* through JSON.stringify, then one `images` entry per file.
FormOf(d) ==
  <<FormEntry("orderId", "text", <<d.orderId>>),
    FormEntry("items", "json", d.items),
    FormEntry("returnReason", "text", <<d.returnReason>>)>>
  \o (IF d.notes = Null THEN <<>> ELSE <<FormEntry("notes", "text", d.notes)>>)
  \o <<FormEntry("refundMethod", "text", <<d.refundMethod>>)>>
  \o [i \in 1..Len(d.images[1]) |-> FormEntry("images", "file", <<d.images[1][i]>>)]

\* apiClient.upload: POST, headers {} (Authorization aside), body formData
UploadCall(endpoint, form) ==
  [via |-> "upload", method |-> "POST", endpoint |-> endpoint,
   contentType |-> Null, form |-> form, json |-> Null]

\* apiClient.post: request() with Content-Type application/json and
\* body JSON.stringify(data)
PostCall(endpoint, data) ==
  [via |-> "request", method |-> "POST", endpoint |-> endpoint,
   contentType |-> Some("application/json"), form |-> <<>>, json |-> Some(data)]

ReturnInit ==
  /\ ContainerInit
  /\ Idle(shown) /\ Idle(token) /\ Idle(setup) /\ Idle(mut)
  /\ req = Null
  /\ svc \in ReturnDatas

CreateReturn ==
  /\ req = Null
  /\ req' = IF HasImages(svc)
            THEN Some(UploadCall("/returns/create", FormOf(svc)))
            ELSE Some(PostCall("/returns", svc))
  /\ UNCHANGED <<cvars, shown, token, setup, svc, mut>>

ReturnNext == CreateReturn

SpecReturn == ReturnInit /\ [][ReturnNext]_vars

\* ------------------------------------------------- sign-in synchronisation
\* The two effects that run when isSignedIn changes, setupAuth and syncUser,
\* with the header of every request syncUser dispatches.  In this
\* specification `svc` holds, per sign-in, the position of its syncUser
\* invocation and the requests it has sent; `setup` is as in SpecAuth.
MaxSyncs == 2
SignIns == 1..MaxSyncs

IdleSync == [phase |-> "idle", sent |-> {}]

\* a request by name with the header request() built for it
Sent(name) == [name |-> name, auth |-> AuthHeader(token)]

SyncInit ==
  /\ ContainerInit
  /\ Idle(shown) /\ Idle(req) /\ Idle(mut)
  /\ token = Null
  /\ setup = [cur |-> "none", stale |-> 0, got |-> Null, n |-> 0]
  /\ svc = [k \in SignIns |-> IdleSync]

\* isSignedIn becomes true.  setupAuth runs to await getToken(); then
\* syncUser runs to await getProfile(), whose request is dispatched with the
\* token registered at this moment.
SyncSignIn ==
  /\ ~isSignedIn
  /\ setup.n < MaxSyncs
  /\ isSignedIn' = TRUE
  /\ setup' = [setup EXCEPT !.cur = "pending", !.got = Null, !.n = @ + 1]
  /\ loading' = TRUE
  /\ error' = Null
  /\ issued' = issued \cup {<<"sync", setup.n + 1, "profile">>}
  /\ svc' = [svc EXCEPT ![setup.n + 1] =
               [phase |-> "profile", sent |-> {Sent("profile")}]]
  /\ UNCHANGED <<cart, wishlist, user, orders, returns, notifications,
                 appliedPromo, toasts, sess, nsess, ord, nord,
                 shown, req, token, mut>>

\* isSignedIn becomes false: clearAuthToken(), and syncUser's else branch.
SyncSignOut ==
  /\ isSignedIn
  /\ isSignedIn' = FALSE
  /\ token' = Null
  /\ setup' = [setup EXCEPT !.cur = "none", !.got = Null,
                            !.stale = IF setup.cur = "pending" THEN @ + 1 ELSE @]
  /\ user' = Null
  /\ cart' = Null
  /\ wishlist' = Null
  /\ orders' = <<>>
  /\ returns' = <<>>
  /\ notifications' = <<>>
  /\ appliedPromo' = Null
  /\ UNCHANGED <<loading, error, toasts, issued, sess, nsess, ord, nord,
                 shown, req, svc, mut>>

\* getProfile() of sign-in k settles: on success setUser and the six loads,
\* each dispatched with the token registered at this moment; on failure the
\* catch and the finally.
SyncProfileDone(k, ok) ==
  /\ svc[k].phase = "profile"
  /\ IF ok
     THEN /\ user' = Some([profile |-> "p1", addresses |-> <<>>])
          /\ issued' = issued \cup FanOut(k)
          /\ svc' = [svc EXCEPT ![k].phase = "fanout",
                                ![k].sent = @ \cup {Sent(l) : l \in Loads}]
          /\ UNCHANGED <<error, toasts, loading>>
     ELSE /\ error' = Some("Failed to fetch profile")
          /\ toasts' = ToastError
          /\ loading' = FALSE
          /\ svc' = [svc EXCEPT ![k].phase = "failed"]
          /\ UNCHANGED <<user, issued>>
  /\ UNCHANGED <<isSignedIn, cart, wishlist, orders, returns, notifications,
                 appliedPromo, sess, nsess, ord, nord,
                 shown, req, token, setup, mut>>

SyncProfileSettles == \E k \in SignIns : \E ok \in BOOLEAN : SyncProfileDone(k, ok)

SyncNext ==
  \/ SyncSignIn
  \/ SyncSignOut
  \/ SyncProfileSettles
  \/ TokenArrives
  \/ StaleTokenArrives
  \/ GetTokenRejects

SpecSync == SyncInit /\ [][SyncNext]_vars

\* ------------------------------------------- address reload and the profile
\* addAddress and updateUser called by a signed-in user, overlapping freely,
\* and a sign-out.  In this specification `mut` holds the two invocations:
\* `addr` (with the user of the render that created it) and `upd`.
IdleCall == [pc |-> "idle", capUser |-> Null, result |-> "none", got |-> Null]

ReloadInit ==
  /\ isSignedIn = TRUE
  /\ cart = Null
  /\ wishlist = Null
  /\ user \in {Some([profile |-> "p1", addresses |-> ads]) : ads \in {<<>>, <<"a0">>}}
  /\ orders = <<>>
  /\ returns = <<>>
  /\ notifications = <<>>
  /\ appliedPromo = Null
  /\ loading = FALSE
  /\ error = Null
  /\ toasts = [success |-> 0, error |-> 0]
  /\ issued = {}
  /\ sess = [s \in Sessions |-> IdleSession]
  /\ nsess = 0
  /\ ord = [k \in OrderCalls |-> IdleOrder]
  /\ nord = 0
  /\ Idle(shown) /\ Idle(req) /\ Idle(token) /\ Idle(setup) /\ Idle(svc)
  /\ mut = [addr |-> IdleCall, upd |-> IdleCall]

\* what neither method touches
rframe == <<isSignedIn, cart, wishlist, orders, returns, notifications,
            appliedPromo, error, sess, nsess, ord, nord,
            shown, req, token, setup, svc>>

\* addAddress is called: setLoading(true), createAddress is requested.
AddAddressStart ==
  /\ isSignedIn
  /\ mut.addr.pc = "idle"
  /\ mut' = [mut EXCEPT !.addr = [IdleCall EXCEPT !.pc = "service", !.capUser = user]]
  /\ loading' = TRUE
  /\ issued' = issued \cup {<<"addAddress", 1, "service">>}
  /\ UNCHANGED <<user, toasts, rframe>>

\* createAddress settles: on success loadAddresses() is started.
AddAddressServiceDone(ok) ==
  /\ mut.addr.pc = "service"
  /\ IF ok
     THEN /\ mut' = [mut EXCEPT !.addr.pc = "refresh"]
          /\ issued' = issued \cup {<<"addAddress", 1, "addresses">>}
          /\ UNCHANGED <<toasts, loading>>
     ELSE /\ mut' = [mut EXCEPT !.addr.pc = "done", !.addr.result = "threw"]
          /\ toasts' = ToastError
          /\ loading' = FALSE
          /\ UNCHANGED issued
  /\ UNCHANGED <<user, rframe>>

\* getAddresses of loadAddresses settles: if (user) setUser({...user,
\* addresses}) with the captured user; then the notice and the finally.
AddAddressReloadDone(ok, v) ==
  /\ mut.addr.pc = "refresh"
  /\ IF ok
     THEN LoadWrite("addresses", v, mut.addr.capUser)
     ELSE UNCHANGED <<cart, wishlist, orders, returns, notifications, user>>
  /\ mut' = [mut EXCEPT !.addr.pc = "done", !.addr.result = "returned",
                        !.addr.got = IF ok THEN Some(v) ELSE Null]
  /\ toasts' = ToastSuccess
  /\ loading' = FALSE
  /\ UNCHANGED <<isSignedIn, appliedPromo, error, issued, sess, nsess, ord, nord,
                 shown, req, token, setup, svc>>

\* updateUser is called: setLoading(true), updateProfile is requested.
UpdateUserStart ==
  /\ isSignedIn
  /\ mut.upd.pc = "idle"
  /\ mut' = [mut EXCEPT !.upd = [IdleCall EXCEPT !.pc = "service", !.capUser = user]]
  /\ loading' = TRUE
  /\ issued' = issued \cup {<<"updateUser", 1, "service">>}
  /\ UNCHANGED <<user, toasts, rframe>>

\* updateProfile settles: setUser(prev => prev ? {...prev, ...updated} : null)
UpdateUserDone(ok, p) ==
  /\ mut.upd.pc = "service"
  /\ IF ok
     THEN /\ user' = IF user # Null THEN Some([user[1] EXCEPT !.profile = p]) ELSE Null
          /\ mut' = [mut EXCEPT !.upd.pc = "done", !.upd.result = "returned",
                                !.upd.got = Some(p)]
          /\ toasts' = ToastSuccess
     ELSE /\ mut' = [mut EXCEPT !.upd.pc = "done", !.upd.result = "threw"]
          /\ toasts' = ToastError
          /\ UNCHANGED user
  /\ loading' = FALSE
  /\ UNCHANGED <<issued, rframe>>

\* isSignedIn becomes false: syncUser's else branch.
ReloadSignOut ==
  /\ isSignedIn
  /\ isSignedIn' = FALSE
  /\ user' = Null
  /\ cart' = Null
  /\ wishlist' = Null
  /\ orders' = <<>>
  /\ returns' = <<>>
  /\ notifications' = <<>>
  /\ appliedPromo' = Null
  /\ UNCHANGED <<loading, error, toasts, issued, sess, nsess, ord, nord, ovars>>

AddAddressServiceSettles == \E ok \in BOOLEAN : AddAddressServiceDone(ok)
AddAddressReloadSettles ==
  \E ok \in BOOLEAN : \E v \in ServerData("addresses") : AddAddressReloadDone(ok, v)
UpdateUserSettles ==
  \E ok \in BOOLEAN : \E p \in ServiceValues("updateUser") : UpdateUserDone(ok, p)

ReloadNext ==
  \/ AddAddressStart
  \/ AddAddressServiceSettles
  \/ AddAddressReloadSettles
  \/ UpdateUserStart
  \/ UpdateUserSettles
  \/ ReloadSignOut

SpecReload == ReloadInit /\ [][ReloadNext]_vars

\* --------------------------------------------------------- ApiClient.get URL
\* The URL ApiClient.get ends up requesting.  A URL is its origin, the
\* segments of its path and its query entries.  In this specification `svc`
\* is the call (the client's base URL, the endpoint, the params) and `req`
\* what became of it.
MaxParams == 2

\* base URLs: the default http://localhost:5000/api, one without a path, and
\* a relative one (VITE_API_BASE_URL = /api)
BaseURLs ==
  { [absolute |-> TRUE, origin |-> "http://localhost:5000", path |-> <<"api">>],
    [absolute |-> TRUE, origin |-> "http://localhost:5000", path |-> <<>>],
    [absolute |-> FALSE, origin |-> "", path |-> <<"api">>] }

Endpoints == { <<"cart">>, <<"orders", "o1">> }

\* params entries; values are JS values
ParamValues == {"undefined", "null", "0", "a b"}
Params == SeqsUpTo({"page", "q"} \X ParamValues, MaxParams)

\* String(value) as URLSearchParams serialises it
EncodeParam(v) == IF v = "a b" THEN "a+b" ELSE v

\* the entries get() appends: value !== undefined && value !== null
RECURSIVE SearchOf(_)
SearchOf(ps) ==
  IF ps = <<>> THEN <<>>
  ELSE (IF ps[1][2] \in {"undefined", "null"} THEN <<>>
        ELSE <<<<ps[1][1], EncodeParam(ps[1][2])>>>>)
       \o SearchOf(Tail(ps))

\* `${this.baseURL}${endpoint}` for an endpoint given as path and search
Join(base, path, search) ==
  [origin |-> base.origin, path |-> base.path \o path, search |-> search]

\* get(): new URL(base + endpoint), params appended, then
\* request(url.pathname + url.search), which prefixes the base again
GetURL(base, endpoint, ps) ==
  LET url == Join(base, endpoint, SearchOf(ps))
  IN Join(base, url.path, url.search)

UrlInit ==
  /\ ContainerInit
  /\ Idle(shown) /\ Idle(token) /\ Idle(setup) /\ Idle(mut)
  /\ svc \in [base : BaseURLs, endpoint : Endpoints, params : Params]
  /\ req = [pc |-> "called", url |-> Null]

\* apiClient.get(endpoint, params) runs to its fetch; new URL throws a
\* TypeError for a relative base.
Get ==
  /\ req.pc = "called"
  /\ req' = IF svc.base.absolute
            THEN [pc |-> "fetching",
                  url |-> Some(GetURL(svc.base, svc.endpoint, svc.params))]
            ELSE [pc |-> "threw", url |-> Null]
  /\ UNCHANGED <<cvars, shown, token, setup, svc, mut>>

UrlNext == Get

SpecUrl == UrlInit /\ [][UrlNext]_vars

\* ------------------------------------------------------------ properties
\* The value a load keeps up to date, as an optional.
Written(l, v) ==
  CASE l = "cart"          -> cart = v
    [] l = "wishlist"      -> wishlist = v
    [] l = "orders"        -> Some(orders) = v
    [] l = "returns"       -> Some(returns) = v
    [] l = "notifications" -> Some(notifications) = v
    [] l = "addresses"     -> user # Null /\ Some(user[1].addresses) = v
\* The same field as a sign-in finds it (nothing loaded yet).
Unloaded(l) ==
  CASE l = "cart"          -> cart = Null
    [] l = "wishlist"      -> wishlist = Null
    [] l = "orders"        -> orders = <<>>
    [] l = "returns"       -> returns = <<>>
    [] l = "notifications" -> notifications = <<>>
    [] l = "addresses"     -> user = Null \/ user[1].addresses = <<>>

\* C1: while the auth status is signed-out (the sign-out has been processed
\* and no sign-in has followed), cart, wishlist and user are null, orders,
\* returns and notifications are empty and appliedPromo is null, whatever was
\* still in flight at the sign-out.
C1_SignedOutFieldsCleared ==
  ~isSignedIn =>
    /\ cart = Null /\ wishlist = Null /\ user = Null
    /\ orders = <<>> /\ returns = <<>> /\ notifications = <<>>
    /\ appliedPromo = Null

\* C2: a sign-in synchronisation whose profile fetch has failed has still
\* issued the request of each of the six loads.
C2_LoadsIssuedAfterProfileFailure ==
  \A s \in Sessions :
    sess[s].phase = "failed" => \A l \in Loads : <<"sync", s, l>> \in issued

\* C3: when the fan-out of a sign-in has finished with at least one failed
\* load (no sign-out, no mutation meanwhile), no notice was raised, error is
\* not set, each failed load left its field as it was and every load that
\* succeeded wrote its fetched result.
C3_LoadFailureSwallowed ==
  \A s \in Sessions :
    (sess[s].phase = "done" /\ ~sess[s].allOk /\ ~sess[s].interrupted /\ nord = 0) =>
      /\ toasts.error = 0
      /\ error = Null
      /\ \A l \in Loads :
           IF sess[s].got[l] = Null THEN Unloaded(l) ELSE Written(l, sess[s].got[l])

\* C4: when the synchronisation of a sign-in has finished with the profile
\* fetch and all six loads successful (no sign-out, no mutation meanwhile),
\* user is non-null with the fetched address list and cart, wishlist, orders,
\* returns and notifications hold their fetched values.
C4_SignInPopulatesEverything ==
  \A s \in Sessions :
    (sess[s].phase = "done" /\ sess[s].allOk /\ ~sess[s].interrupted /\ nord = 0) =>
      /\ user # Null
      /\ \A l \in Loads : Written(l, sess[s].got[l])

\* C5: a createOrder invoked on a cart that holds no line items has failed
\* with the precondition error without issuing a request.
C5_EmptyCartOrderRejected ==
  \A k \in OrderCalls :
    (ord[k].pc # "idle" /\ (ord[k].capCart = Null \/ ord[k].capCart[1].items = 0)) =>
      /\ ord[k].pc = "done"
      /\ ord[k].result = "threw"
      /\ <<"createOrder", k, "POST /orders">> \notin issued

\* C6: with a cart of total T >= 0 and a fixed promo of amount a applied,
\* getTotalPrice returns max(0, T - a), never a negative value.
C6_FixedPromoTotal ==
  (shown # Null /\ cart # Null /\ appliedPromo # Null /\ appliedPromo[1].type = "fixed") =>
    /\ shown[1] = Max(0, cart[1].total - appliedPromo[1].discount) * PriceScale
    /\ shown[1] >= 0
\* FLAT50 on a total of 30 displays 0.
C6_Witness ==
  /\ shown = Some(0)
  /\ cart # Null /\ cart[1].total = 30
  /\ appliedPromo # Null /\ appliedPromo[1].code = "FLAT50"

\* C7: with a cart of total T >= 0 and a percentage promo of discount d
\* applied, getTotalPrice returns T * (1 - d/100), which is neither negative
\* nor above T; with no promo it returns T and with no cart 0.
C7_PercentagePromoTotal ==
  shown # Null =>
    /\ cart = Null => shown[1] = 0
    /\ (cart # Null /\ appliedPromo = Null) => shown[1] = cart[1].total * PriceScale
    /\ (cart # Null /\ appliedPromo # Null /\ appliedPromo[1].type = "percentage") =>
         /\ shown[1] * 100 = cart[1].total * PriceScale * (100 - appliedPromo[1].discount)
         /\ shown[1] >= 0
         /\ shown[1] <= cart[1].total * PriceScale
\* SAVE20 on a total of 30 displays 24.
C7_Witness ==
  /\ shown = Some(24 * PriceScale)
  /\ cart # Null /\ cart[1].total = 30
  /\ appliedPromo # Null /\ appliedPromo[1].code = "SAVE20"

\* C8: a call whose round trip, up to the body having been read, has exceeded
\* the timeout was cancelled and returned an Envelope without data, with the
\* message "Request timeout" and status 500.
C8_TimeoutYieldsTimeoutEnvelope ==
  (req.pc = "done" /\ req.late) =>
    /\ req.aborted
    /\ req.outcome = "returned"
    /\ req.env.data = "none"
    /\ req.env.message = "Request timeout"
    /\ req.env.status = INTERNAL_SERVER_ERROR

\* C9: no ApiClient call throws; a network failure, an abort and a malformed
\* body each come back as an Envelope without data and with status 500.
C9_NeverThrows ==
  req.pc = "done" =>
    /\ req.outcome = "returned"
    /\ (req.timer = "fired" \/ req.status = 0 \/ req.body.json = "malformed") =>
         (req.env.data = "none" /\ req.env.status = INTERNAL_SERVER_ERROR)

\* C10: for a success status and a JSON object body, the Envelope of a JSON
\* request has data = body.data whenever the body has a data field (whatever
\* its value) and the whole body only when it has none, message = body.message
\* or else "Success", and the HTTP status.
C10_SuccessEnvelope ==
  (req.pc = "done" /\ req.kind # "upload" /\ req.body.json = "object" /\ ResponseOk(req.status)) =>
    /\ IF req.body.data # "undefined"
       THEN req.env.data = "field" /\ req.env.dataVal = req.body.data
       ELSE req.env.data = "body"
    /\ req.env.message = Nullish(req.body.message, "Success")
    /\ req.env.status = req.status

\* C18: a call builds its Authorization header from the token registered at
\* the moment it is dispatched (Bearer <token> exactly when one is set, no
\* header otherwise), and once dispatched its header no longer changes,
\* whatever happens to the token while it is in flight.
C18_TokenReadAtDispatch ==
  [][ /\ (req.pc = "called" /\ req'.pc = "fetching") =>
           /\ token = Null => req'.auth = Null
           /\ token # Null => req'.auth = Some([scheme |-> "Bearer", token |-> token[1]])
      /\ req.pc # "called" => req'.auth = req.auth ]_vars
\* A request sent with t1 is still in flight after the token was cleared.
C18_Witness ==
  /\ req.pc = "headers"
  /\ req.auth = Some([scheme |-> "Bearer", token |-> "t1"])
  /\ token = Null

\* C11: a service method that has finished on a returned Envelope succeeded
\* exactly when the Envelope carried data, whatever its status (for
\* duplicateAddress: its read step went on exactly when it carried data).
C11_DataDecidesOutcome ==
  (svc.pc # "call" /\ req.outcome = "returned") =>
    IF svc.shape = "duplicate"
    THEN (req.env.data # "none") <=> (svc.sent # Null)
    ELSE (req.env.data # "none") <=> (svc.result = "returned")

\* C19: a service method whose transport call returned an Envelope without
\* data has thrown.
C19_NoServiceSwallows ==
  (svc.pc = "done" /\ req.outcome = "returned" /\ req.env.data = "none") =>
    svc.result = "threw"

\* C20: the create request duplicateAddress sends has isDefault = false, and
\* none is sent when the read of the source address failed.
C20_DuplicateNeverDefault ==
  svc.shape = "duplicate" =>
    /\ svc.sent # Null => svc.sent[1].isDefault = "false"
    /\ (svc.pc = "done" /\ ~HasData(req)) => svc.sent = Null

\* C17: with the user signed out and no getToken() call pending the token is
\* absent; with the user signed in and a token returned by the getToken() call
\* of this sign-in (and no logout since) the token is that token.
C17_TokenFollowsAuth ==
  /\ (~isSignedIn /\ setup.cur # "pending" /\ setup.stale = 0) => token = Null
  /\ (isSignedIn /\ setup.got # Null) => token = setup.got

\* C12: a finished invocation of a mutation method has emitted exactly one
\* notice.
C12_ExactlyOneNotice ==
  (mut.pc = "done" /\ mut.m.mutation) => mut.success + mut.error = 1

\* C13: a finished invocation whose service call failed has shown one error
\* notice and has thrown to its caller.
C13_FailureReRaised ==
  (mut.pc = "done" /\ mut.failed) => (mut.error = 1 /\ mut.result = "threw")

\* C14: while a mutation method is in progress the busy flag is set, and it is
\* false once the method has finished.
C14_BusyFlagBracketsMutation ==
  mut.m.mutation =>
    /\ mut.pc \in {"exists", "service", "refresh"} => loading = TRUE
    /\ mut.pc = "done" => loading = FALSE

\* C15: the step that completes a successful markNotificationRead(id) sets
\* read on the notification with that id and changes nothing else in the
\* list; when that notification was read already the list stays as it was;
\* and no invocation of markNotificationRead requests the notification list.
C15_MarkReadLocalAndIdempotent ==
  /\ [](\A r \in issued : r[1] = "markNotificationRead" => r[3] = "service")
  /\ [][ (mut.pc = "service" /\ mut.m.name = "markNotificationRead"
                             /\ mut'.result = "returned") =>
           /\ Len(notifications') = Len(notifications)
           /\ \A i \in DOMAIN notifications :
                /\ notifications'[i].id = notifications[i].id
                /\ notifications'[i].read =
                     (notifications[i].read \/ notifications[i].id = mut.arg)
           /\ (\A i \in DOMAIN notifications :
                 notifications[i].id = mut.arg => notifications[i].read)
                => notifications' = notifications
           /\ issued' = issued ]_vars

\* a second successful markNotificationRead("n1") has finished: n1 was read
\* before the call already, n2 is still unread
C15_Witness ==
  /\ mut.pc = "done" /\ mut.m.name = "markNotificationRead" /\ mut.arg = "n1"
  /\ mut.result = "returned" /\ mut.n = 2
  /\ mut.before[1].read
  /\ notifications[1].read /\ ~notifications[2].read

\* C16: the step that completes a successful createOrder puts the new order
\* in front of the unchanged previous orders, nulls cart and appliedPromo and
\* issues no request; a createOrder that fails, at its start or when its
\* service call settles, leaves orders, cart and appliedPromo as they were;
\* and no invocation of createOrder requests the cart or the orders.
C16_CreateOrderEffects ==
  /\ [](\A r \in issued : r[1] = "createOrder" => r[3] = "service")
  /\ [][ /\ (mut.pc = "service" /\ mut.m.name = "createOrder") =>
              IF mut'.result = "returned"
              THEN /\ Len(orders') = Len(orders) + 1
                   /\ orders'[1] \in ServiceValues("createOrder")
                   /\ Tail(orders') = orders
                   /\ cart' = Null
                   /\ appliedPromo' = Null
                   /\ issued' = issued
              ELSE /\ mut'.result = "threw"
                   /\ UNCHANGED <<orders, cart, appliedPromo>>
         /\ (mut'.n = mut.n + 1 /\ mut'.m.name = "createOrder") =>
              UNCHANGED <<orders, cart, appliedPromo>> ]_vars

\* createOrder succeeded as the second call, after an applyPromoCode that
\* applied a promo: the new order is in front of the old one
C16_Witness ==
  /\ mut.pc = "done" /\ mut.m.name = "createOrder" /\ mut.result = "returned"
  /\ mut.n = 2
  /\ <<"applyPromoCode", 1, "cart">> \in issued
  /\ toasts = [success |-> 2, error |-> 0]
  /\ orders = <<"o2", "o1">>
  /\ cart = Null /\ appliedPromo = Null

\* C21: the request createReturn hands to the client is, when returnData has
\* at least one image, a multipart upload without content-type header whose
\* form holds exactly one `items` field, the JSON encoding of the item list,
\* and one file entry per image; otherwise it is a JSON-body request.
C21_ImagesChooseUpload ==
  req # Null =>
    IF svc.images # Null /\ svc.images[1] # <<>>
    THEN /\ req[1].via = "upload"
         /\ req[1].contentType = Null
         /\ req[1].json = Null
         /\ Cardinality({i \in DOMAIN req[1].form : req[1].form[i].key = "items"}) = 1
         /\ \A i \in DOMAIN req[1].form :
              req[1].form[i].key = "items" =>
                req[1].form[i].kind = "json" /\ req[1].form[i].val = svc.items
         /\ Cardinality({i \in DOMAIN req[1].form : req[1].form[i].kind = "file"})
              = Len(svc.images[1])
    ELSE /\ req[1].via = "request"
         /\ req[1].contentType = Some("application/json")
         /\ req[1].json = Some(svc)
         /\ req[1].form = <<>>

\* a return with two items and two images has been sent
C21_Witness ==
  /\ req # Null
  /\ svc.images # Null /\ Len(svc.images[1]) = 2 /\ Len(svc.items) = 2
  /\ req[1].via = "upload"

\* C22: when applyPromoCode(code) has finished after a successful service
\* call, appliedPromo is the promo of that code (compared without case); when
\* removePromoCode has finished after a successful service call, appliedPromo
\* is null.
C22_PromoReplacedWholesale ==
  (mut.pc = "done" /\ ~mut.failed) =>
    /\ mut.m.name = "applyPromoCode" =>
         /\ appliedPromo # Null
         /\ ToLowerCase(appliedPromo[1].code) = ToLowerCase(mut.arg)
    /\ mut.m.name = "removePromoCode" => appliedPromo = Null

\* C23: a step issues the load of a collection only as the step in which the
\* service call of the invocation in progress settles successfully, and issues
\* that invocation's own refresh; the step in which the service call fails
\* issues nothing and leaves every collection as it was.
C23_RefreshAfterSuccess ==
  [][ /\ \A r \in issued' \ issued :
           r[3] \in Loads =>
             /\ mut.pc = "service" /\ ~mut'.failed /\ mut'.pc = "refresh"
             /\ r = <<mut.m.name, mut.n, mut.m.refresh>>
      /\ (mut.pc = "service" /\ mut'.failed) =>
           /\ issued' = issued
           /\ UNCHANGED <<cart, wishlist, user, returns>> ]_vars

\* a removeFromCart has refreshed the cart, and the addToCart after it has
\* failed without issuing a refresh
C23_Witness ==
  /\ mut.pc = "done" /\ mut.failed /\ mut.m.name = "addToCart" /\ mut.n = 2
  /\ <<"removeFromCart", 1, "cart">> \in issued
  /\ <<"addToCart", 2, "cart">> \notin issued

\* C24: a step issues a load of the sign-in synchronisation only as the step
\* in which the profile fetch of that sign-in completes successfully; that
\* step sets the user and issues all six loads at once.
C24_LoadsAfterProfileTogether ==
  [][ \A s \in SignIns : \A l \in Loads :
        (<<"sync", s, l>> \in issued' \ issued) =>
          /\ svc[s].phase = "profile"
          /\ <<"sync", s, "profile">> \in issued
          /\ svc'[s].phase = "fanout"
          /\ user' # Null
          /\ \A k \in Loads : <<"sync", s, k>> \in issued' \ issued ]_vars

\* the profile fetch has completed and the six loads are in flight
C24_Witness ==
  \E s \in SignIns :
    /\ svc[s].phase = "fanout"
    /\ isSignedIn /\ user # Null
    /\ \A l \in Loads : <<"sync", s, l>> \in issued

\* C25: every request a sign-in synchronisation has sent carries an
\* Authorization header.
C25_SyncRequestsAuthorized ==
  \A k \in SignIns : \A r \in svc[k].sent : r.auth # Null

\* C26: with the user signed in, once an addAddress whose reload succeeded and
\* a successful updateUser have both finished, user holds the updated profile
\* and the reloaded addresses; with the user signed out, user is null.
C26_ReloadKeepsProfile ==
  /\ (/\ isSignedIn
      /\ mut.addr.pc = "done" /\ mut.addr.got # Null
      /\ mut.upd.pc = "done" /\ mut.upd.got # Null) =>
       /\ user # Null
       /\ user[1].profile = mut.upd.got[1]
       /\ user[1].addresses = mut.addr.got[1]
  /\ ~isSignedIn => user = Null

\* C27: while addAddress or updateUser is in flight the busy flag is true.
C27_BusyWhileInFlight ==
  (mut.addr.pc \in {"service", "refresh"} \/ mut.upd.pc = "service") =>
    loading = TRUE

\* C28: once the membership check of a toggleWishlist has settled, a remove
\* request has been issued exactly when the check succeeded and found the
\* product, and an add request exactly when it succeeded and did not.
C28_ToggleFollowsMembership ==
  (mut.m.name = "toggleWishlist" /\ mut.exists # Null) =>
    LET e == mut.exists[1]
    IN /\ (<<"toggleWishlist", mut.n, "remove">> \in issued) <=> (e.ok /\ e.member)
       /\ (<<"toggleWishlist", mut.n, "add">> \in issued) <=> (e.ok /\ ~e.member)

\* C29: a void service method whose request was answered 204 with an empty
\* body, or 200 with a JSON body, has returned without throwing.
C29_VoidAcceptsNoContent ==
  (/\ svc.shape = "void" /\ svc.pc = "done"
   /\ req.timer = "cleared"
   /\ \/ req.status = 204 /\ req.body.json = "malformed"
      \/ req.status = 200 /\ req.body.json = "object") =>
    svc.result = "returned"

\* C30: the URL a get has requested is the base URL followed by the endpoint
\* path, the base URL's path appearing once, and by the params whose value is
\* neither undefined nor null, encoded, in their order.
C30_GetURL ==
  req.pc # "called" =>
    /\ req.url # Null
    /\ req.url[1].origin = svc.base.origin
    /\ req.url[1].path = svc.base.path \o svc.endpoint
    /\ Len(req.url[1].search) =
         Cardinality({i \in DOMAIN svc.params :
                        svc.params[i][2] \notin {"undefined", "null"}})
    /\ \A i \in DOMAIN req.url[1].search :
         \E j \in DOMAIN svc.params :
           /\ req.url[1].search[i][1] = svc.params[j][1]
           /\ svc.params[j][2] \notin {"undefined", "null"}

====
